---------------------------- MODULE Spec2Model ----------------------------
(***************************************************************************)
(* Model of the scan lifecycle of nuclei-service-demo: the scans and       *)
(* scan_results tables (internal/repository/postgres/scan_repository.go),  *)
(* the polling ScanWorker (internal/service/scan_worker.go), the nuclei    *)
(* service with its cancel registry (internal/service/nuclei_service.go)   *)
(* and the scan facade (internal/service/scan_service.go) as wired by      *)
(* cmd/main.go and server.New.                                             *)
(***************************************************************************)
EXTENDS Integers, Sequences, FiniteSets, TLC

(* ------------------------------ bounds -------------------------------- *)

\* number of scan ids ever handed out by uuid.New()
MaxScans == 2
\* number of result events one engine run emits at most
MaxEvents == 2
\* number of concurrent DELETE request handlers
NumClients == 2

IDs == 1..MaxScans
Clients == 1..NumClients

(* ------------------------------ constants ----------------------------- *)

ScanStatusPending == "pending"
ScanStatusRunning == "running"
ScanStatusCompleted == "completed"
ScanStatusFailed == "failed"
ScanStatusCancelled == "cancelled"

Statuses ==
  {ScanStatusPending, ScanStatusRunning, ScanStatusCompleted,
   ScanStatusFailed, ScanStatusCancelled}

TerminalStatuses == {ScanStatusCompleted, ScanStatusFailed, ScanStatusCancelled}

\* a column that holds SQL NULL
NULL == "NULL"

\* targets a caller may submit (the facade does not validate them)
Targets == {"", "http://x"}

\* the defaults Get and List put into Options
DefaultOptions ==
  [concurrency |-> 10, rate_limit |-> 100, timeout |-> 30, retries |-> 3,
   headless |-> FALSE]

\* options a caller may submit
SomeOptions ==
  [concurrency |-> 5, rate_limit |-> 50, timeout |-> 10, retries |-> 1,
   headless |-> TRUE]

\* the bodies of POST /api/v1/scans a caller may send: target, template_ids
\* and options (a pointer: <<>> when left out, <<o>> when given)
Inputs ==
  {[target |-> "", template_ids |-> <<>>, options |-> <<>>],
   [target |-> "http://x", template_ids |-> <<"t1">>, options |-> <<SomeOptions>>]}

\* the two nucleiService instances of the process: the one main hands to the
\* ScanWorker and the one server.New hands to the scan facade
WorkerSvc == "main"
FacadeSvc == "server"
Services == {WorkerSvc, FacadeSvc}

\* error text of a failed engine run
EngineErr == "nuclei execution: error"

\* a nil error
Nil == "nil"
\* repository.ErrNotFound
ErrNotFound == "not found"
\* the error of CancelScan when the registry holds no handle for the id
ErrNoRunningScan == "no running scan found"

VARIABLES
  scans,        \* table scans: id -> row
  scan_results, \* table scan_results, in insertion order
  nextID,       \* the next fresh identifier
  cancels,      \* nucleiService.cancels, per service instance: set of scan ids
  cancelled,    \* scan ids whose scan context has been cancelled
  wpc,          \* position of the ScanWorker goroutine
  wScans,       \* the list fetched by the tick in progress (scan objects)
  wi,           \* index of the scan the tick is working on
  wResults,     \* results collected by the engine run in progress / returned
  wk,           \* index of the next result to store
  tickErr,      \* the last processPendingScans returned an error to Start
  cpc,          \* position of each DELETE handler
  cid,          \* scan id each DELETE handler was called with
  cseen,        \* status each DELETE handler read
  cerr,         \* error the handler's CancelScan call returned
  ctxDone,      \* the worker's context has been cancelled
  invoked,      \* history: how often a scan's cancel function was invoked
  submitted,    \* history: the input each scan was submitted with
  emitted,      \* history: the results the engine emitted for each scan
  engineRuns    \* history: how often the engine was invoked for each scan

vars ==
  <<scans, scan_results, nextID, cancels, cancelled, wpc, wScans, wi,
    wResults, wk, tickErr, cpc, cid, cseen, cerr, ctxDone, invoked, submitted,
    emitted, engineRuns>>

workerVars == <<wpc, wScans, wi, wResults, wk, tickErr>>
clientVars == <<cpc, cid, cseen, cerr>>
historyVars == <<emitted, engineRuns>>

(* ------------------------------ helpers ------------------------------- *)

\* a parse that hands back whatever it is given
ParseScanStatus_Identity(s) == s

\* model.ParseScanStatus
ParseScanStatus(s) ==
  CASE s = "pending" -> ScanStatusPending
    [] s = "running" -> ScanStatusRunning
    [] s = "completed" -> ScanStatusCompleted
    [] s = "failed" -> ScanStatusFailed
    [] s = "cancelled" -> ScanStatusCancelled
    [] OTHER -> ScanStatusPending

\* all orderings of a finite set, as sequences (a query without ORDER BY)
Orderings(S) ==
  {s \in [1..Cardinality(S) -> S] : \A a, b \in 1..Cardinality(S) : a # b => s[a] # s[b]}

(* ---------------------------- the job store --------------------------- *)

\* an INSERT that writes the status 'running' whatever the scan says
Create_AsRunning(tbl, scan) ==
  tbl @@ (scan.id :> [target |-> scan.target, status |-> "running",
                      template_ids |-> scan.template_ids,
                      started_at |-> NULL, completed_at |-> NULL,
                      error |-> NULL, options |-> NULL])

\* ScanRepository.Create: the INSERT sets id, target, status, created_at,
\* updated_at, template_ids, tags; every other column keeps its default (NULL)
Create(tbl, scan) ==
  tbl @@ (scan.id :> [target |-> scan.target, status |-> scan.status,
                      template_ids |-> scan.template_ids,
                      started_at |-> NULL, completed_at |-> NULL,
                      error |-> NULL, options |-> NULL])

\* Update with the status column left out of the SET list
Update_TargetOnly(tbl, scan) ==
  IF scan.id \in DOMAIN tbl
    THEN [tbl EXCEPT ![scan.id].target = scan.target]
    ELSE tbl

\* an update that inserts the row when there is none
Update_Upsert(tbl, scan) ==
  IF scan.id \in DOMAIN tbl
    THEN [tbl EXCEPT ![scan.id].target = scan.target,
                     ![scan.id].status = scan.status]
    ELSE tbl @@ (scan.id :> [target |-> scan.target, status |-> scan.status,
                             template_ids |-> scan.template_ids,
                             started_at |-> NULL, completed_at |-> NULL,
                             error |-> NULL, options |-> NULL])

\* ScanRepository.Update: UPDATE scans SET target, status, updated_at WHERE id.
\* A missing row makes it a statement that changes nothing and returns nil.
Update(tbl, scan) ==
  IF scan.id \in DOMAIN tbl
    THEN [tbl EXCEPT ![scan.id].target = scan.target,
                     ![scan.id].status = scan.status]
    ELSE tbl

\* the scan object Get and List build from a row: only id, target, status (and
\* the two timestamps not modelled) are read; TemplateIDs is set to the empty
\* list and Options to the defaults, the rest are Go zero values
ScanObject(tbl, id) ==
  [id |-> id, target |-> tbl[id].target,
   status |-> ParseScanStatus(tbl[id].status),
   template_ids |-> <<>>, options |-> <<DefaultOptions>>,
   error |-> "", started_at |-> NULL, completed_at |-> NULL,
   results |-> <<>>]

\* ScanRepository.Get
Get(tbl, id) == ScanObject(tbl, id)

\* List with the status filter dropped from the query
ListIDs_NoFilter(tbl, status) == DOMAIN tbl

\* ScanRepository.List with only the status filter set: the ids it returns
ListIDs(tbl, status) == {id \in DOMAIN tbl : tbl[id].status = status}

\* the error of a statement whose placeholders do not match its arguments
ErrQuery == "query error"

\* ScanRepository.List with its three optional filters (NULL: nil pointer):
\* the status filter is written as $1 and the target filter as $2 whatever
\* else is present, so a target without a status gives a statement with $2
\* and one argument, which the database rejects; the template filter is
\* commented out. ids are the rows the query selects.
ListScans(tbl, status, target, templateID) ==
  IF status = NULL /\ target # NULL
    THEN [err |-> ErrQuery, ids |-> {}]
    ELSE [err |-> Nil,
          ids |-> {id \in DOMAIN tbl :
                     /\ status = NULL \/ tbl[id].status = status
                     /\ target = NULL \/ tbl[id].target = target}]

\* ScanRepository.Delete: DELETE FROM scans WHERE id
Delete(tbl, id) == [j \in DOMAIN tbl \ {id} |-> tbl[j]]

\* a delete that takes the rows of every scan with it
Cascade_All(res, id) == <<>>

\* scan_results.scan_id REFERENCES scans(id) ON DELETE CASCADE
Cascade(res, id) == SelectSeq(res, LAMBDA r : r.scan_id # id)

\* ScanRepository.AddResult: INSERT INTO scan_results
AddResult(res, result) == Append(res, result)

\* the scan_results rows of one scan, in the order of their insertion
ResultRows(res, id) == SelectSeq(res, LAMBDA r : r.scan_id = id)

\* ScanRepository.GetResults: SELECT ... WHERE scan_id = $1 with no ORDER BY;
\* the rows of the scan, in any order the database hands them out
GetResults(res, id) ==
  Orderings({ResultRows(res, id)[k] : k \in 1..Len(ResultRows(res, id))})

(* --------------------------- initial state ---------------------------- *)

Init ==
  /\ scans = <<>>
  /\ scan_results = <<>>
  /\ nextID = 1
  /\ cancels = [s \in Services |-> {}]
  /\ cancelled = {}
  /\ wpc = "idle"
  /\ wScans = <<>>
  /\ wi = 0
  /\ wResults = <<>>
  /\ wk = 0
  /\ tickErr = FALSE
  /\ cpc = [c \in Clients |-> "idle"]
  /\ cid = [c \in Clients |-> 0]
  /\ cseen = [c \in Clients |-> NULL]
  /\ cerr = [c \in Clients |-> NULL]
  /\ ctxDone = FALSE
  /\ invoked = [j \in IDs |-> 0]
  /\ submitted = [j \in IDs |-> NULL]
  /\ emitted = [j \in IDs |-> <<>>]
  /\ engineRuns = [j \in IDs |-> 0]

(* ------------------------- the nuclei service ------------------------- *)

\* nucleiService.StartScan, the SDK options built from the scan: the template
\* filter gets scan.TemplateIDs, the rate limit is passed when it is positive
\* and headless when it is set; concurrency is commented out and timeout and
\* retries are never read (<<>>: the option is not passed to the engine)
EngineConfig(scan) ==
  [template_ids |-> scan.template_ids,
   concurrency |-> <<>>,
   rate_limit |-> IF scan.options # <<>> /\ scan.options[1].rate_limit > 0
                    THEN <<scan.options[1].rate_limit>> ELSE <<>>,
   timeout |-> <<>>,
   retries |-> <<>>,
   headless |-> scan.options # <<>> /\ scan.options[1].headless]

\* the scan the tick in progress is working on (the loop variable scan, as
\* fetched; the fields the loop assigns are written where they are used)
cur == wScans[wi]

\* CancelScan that invokes the cancel function and leaves it in the map
CancelScan_KeepHandle(svc, id) ==
  IF id \in cancels[svc]
    THEN /\ cancelled' = cancelled \cup {id}
         /\ invoked' = [invoked EXCEPT ![id] = IF @ < 2 THEN @ + 1 ELSE @]
         /\ UNCHANGED cancels
    ELSE UNCHANGED <<cancels, cancelled, invoked>>

\* CancelScan that invokes the cancel function without looking it up
CancelScan_Blind(svc, id) ==
  /\ cancelled' = cancelled \cup {id}
  /\ invoked' = [invoked EXCEPT ![id] = IF @ < 2 THEN @ + 1 ELSE @]
  /\ cancels' = [cancels EXCEPT ![svc] = @ \ {id}]

\* nucleiService.CancelScan on one service instance: invoke and delete the
\* handle when there is one, else report "no running scan found"
CancelScan(svc, id) ==
  IF id \in cancels[svc]
    THEN /\ cancelled' = cancelled \cup {id}
         /\ invoked' = [invoked EXCEPT ![id] = IF @ < 2 THEN @ + 1 ELSE @]
         /\ cancels' = [cancels EXCEPT ![svc] = @ \ {id}]
    ELSE UNCHANGED <<cancels, cancelled, invoked>>

\* the error CancelScan returns
CancelScanErr(svc, id) == IF id \in cancels[svc] THEN Nil ELSE ErrNoRunningScan

\* the result the callback builds from the n-th event of a run
NewResult(id, n) == [scan_id |-> id, n |-> n]

(* ---------------------------- the ScanWorker -------------------------- *)

\* a store call that goes through although its context is cancelled
StoreOK_IgnoreCtx(done) == BOOLEAN

\* whether a repository call made with the worker's context can succeed:
\* QueryContext / ExecContext return the context's error once it is
\* cancelled, and may succeed or fail otherwise
StoreOK(done) == IF done THEN {FALSE} ELSE BOOLEAN

\* ScanRepository.List(status): the lists the query may return
List(tbl, status) ==
  {[i \in DOMAIN o |-> ScanObject(tbl, o[i])] : o \in Orderings(ListIDs(tbl, status))}

\* the loop left with return instead of continue
Continue_Return == wpc' = "idle" /\ wi' = 0 /\ wScans' = <<>>

\* the loop of processPendingScans going on to the next scan (continue), or
\* the function returning after the last one
Continue ==
  IF wi < Len(wScans)
    THEN wpc' = "claim" /\ wi' = wi + 1 /\ UNCHANGED wScans
    ELSE wpc' = "idle" /\ wi' = 0 /\ wScans' = <<>>

\* Start leaving its loop when processPendingScans returns an error
ListFailed_Exit == wpc' = "stopped" /\ tickErr' = TRUE /\ UNCHANGED <<wScans, wi>>

\* processPendingScans returns the error of List before it looks at any scan;
\* Start logs it and waits for the next tick
ListFailed == wpc' = "idle" /\ tickErr' = TRUE /\ UNCHANGED <<wScans, wi>>

\* a tick of Start: processPendingScans fetches the pending scans; when List
\* fails it returns the error, and when the list is empty the loop body never
\* runs
Tick ==
  /\ wpc = "idle"
  /\ \E ok \in StoreOK(ctxDone), list \in List(scans, ScanStatusPending) :
       IF ~ok
         THEN ListFailed
         ELSE /\ tickErr' = FALSE
              /\ IF list = <<>>
                   THEN UNCHANGED <<wpc, wScans, wi>>
                   ELSE wpc' = "claim" /\ wi' = 1 /\ wScans' = list
  /\ UNCHANGED <<scans, scan_results, nextID, cancels, cancelled, wResults, wk>>
  /\ UNCHANGED <<clientVars, invoked, submitted, ctxDone>>
  /\ UNCHANGED historyVars

\* scan.Status = "running"; Update; on error log and continue
ClaimScan ==
  /\ wpc = "claim"
  /\ LET scan == [cur EXCEPT !.status = "running"]
     IN \E ok \in StoreOK(ctxDone) :
          IF ok
            THEN /\ scans' = Update(scans, scan)
                 /\ wpc' = "start"
                 /\ UNCHANGED <<wScans, wi>>
            ELSE /\ UNCHANGED scans
                 /\ Continue
  /\ UNCHANGED <<scan_results, nextID, cancels, cancelled, wResults, wk>>
  /\ UNCHANGED <<clientVars, invoked, submitted, ctxDone, tickErr>>
  /\ UNCHANGED historyVars

\* nucleiService.StartScan up to the engine's initialisation: the scan's
\* context is derived from the worker's (and is cancelled from the start when
\* that one is), the cancel function is registered, then NewNucleiEngineCtx
\* succeeds or fails (the failure returns without removing the handle)
EngineStart ==
  /\ wpc = "start"
  /\ cancels' = [cancels EXCEPT ![WorkerSvc] = @ \cup {cur.id}]
  /\ cancelled' = IF ctxDone THEN cancelled \cup {cur.id} ELSE cancelled \ {cur.id}
  /\ wResults' = <<>>
  /\ emitted' = [emitted EXCEPT ![cur.id] = <<>>]
  /\ engineRuns' = [engineRuns EXCEPT ![cur.id] = IF @ < 2 THEN @ + 1 ELSE @]
  /\ \E initOk \in BOOLEAN : wpc' = IF initOk THEN "exec" ELSE "fail"
  /\ UNCHANGED <<scans, scan_results, nextID, wScans, wi, wk>>
  /\ UNCHANGED <<clientVars, invoked, submitted, ctxDone, tickErr>>

\* the engine's callback: one more event is mapped and appended to results
EngineEmit ==
  /\ wpc = "exec"
  /\ cur.id \notin cancelled
  /\ ~ctxDone
  /\ Len(wResults) < MaxEvents
  /\ wResults' = Append(wResults, NewResult(cur.id, Len(wResults) + 1))
  /\ emitted' = [emitted EXCEPT ![cur.id] = Append(@, NewResult(cur.id, Len(@) + 1))]
  /\ UNCHANGED <<scans, scan_results, nextID, cancels, cancelled, wpc, wScans, wi, wk>>
  /\ UNCHANGED <<clientVars, invoked, submitted, ctxDone, tickErr>>
  /\ UNCHANGED engineRuns

\* what StartScan hands back once ExecuteCallbackWithCtx has returned
Returned(results, err) == IF err THEN <<>> ELSE results

\* ExecuteCallbackWithCtx returns: the handle is removed, and StartScan
\* returns (nil, err) or (results, nil)
EngineReturn ==
  /\ wpc = "exec"
  /\ cancels' = [cancels EXCEPT ![WorkerSvc] = @ \ {cur.id}]
  /\ \E err \in BOOLEAN :
       /\ wResults' = Returned(wResults, err)
       /\ IF err
            THEN wpc' = "fail" /\ wk' = 0
            ELSE IF Len(wResults) = 0
                   THEN wpc' = "complete" /\ wk' = 0
                   ELSE wpc' = "store" /\ wk' = 1
  /\ UNCHANGED <<scans, scan_results, nextID, cancelled, wScans, wi>>
  /\ UNCHANGED <<clientVars, invoked, submitted, ctxDone, tickErr>>
  /\ UNCHANGED historyVars

\* StartScan returned an error: scan.Status = "failed", scan.Error = err.Error(),
\* Update (an error is only logged), continue
FailScan ==
  /\ wpc = "fail"
  /\ LET scan == [cur EXCEPT !.status = "failed", !.error = EngineErr]
     IN /\ \E ok \in StoreOK(ctxDone) :
             scans' = IF ok THEN Update(scans, scan) ELSE scans
        /\ Continue
  /\ wResults' = <<>>
  /\ UNCHANGED <<scan_results, nextID, cancels, cancelled, wk>>
  /\ UNCHANGED <<clientVars, invoked, submitted, ctxDone, tickErr>>
  /\ UNCHANGED historyVars

\* the loop that stores the returned results: AddResult, an error is logged
\* and the loop continues. The insert fails when the scan's row is gone.
StoreResult ==
  /\ wpc = "store"
  /\ \E ok \in (IF cur.id \in DOMAIN scans THEN StoreOK(ctxDone) ELSE {FALSE}) :
       scan_results' = IF ok THEN AddResult(scan_results, wResults[wk])
                             ELSE scan_results
  /\ IF wk < Len(wResults)
       THEN wk' = wk + 1 /\ UNCHANGED wpc
       ELSE wk' = 0 /\ wpc' = "complete"
  /\ UNCHANGED <<scans, nextID, cancels, cancelled, wScans, wi, wResults>>
  /\ UNCHANGED <<clientVars, invoked, submitted, ctxDone, tickErr>>
  /\ UNCHANGED historyVars

\* scan.Status = "completed"; Update (an error is only logged); next scan
CompleteScan ==
  /\ wpc = "complete"
  /\ LET scan == [cur EXCEPT !.status = "completed"]
     IN /\ \E ok \in StoreOK(ctxDone) :
             scans' = IF ok THEN Update(scans, scan) ELSE scans
        /\ Continue
  /\ wResults' = <<>>
  /\ UNCHANGED <<scan_results, nextID, cancels, cancelled, wk>>
  /\ UNCHANGED <<clientVars, invoked, submitted, ctxDone, tickErr>>
  /\ UNCHANGED historyVars

\* main returns: the deferred workerCancel cancels the worker's context, and
\* with it the context of the engine run in progress, which is derived from it
Shutdown ==
  /\ ~ctxDone
  /\ ctxDone' = TRUE
  /\ cancelled' = IF wpc = "exec" THEN cancelled \cup {cur.id} ELSE cancelled
  /\ UNCHANGED <<scans, scan_results, nextID, cancels, invoked, submitted>>
  /\ UNCHANGED workerVars
  /\ UNCHANGED clientVars
  /\ UNCHANGED historyVars

\* Start's select takes ctx.Done(): the loop returns
Stop ==
  /\ wpc = "idle"
  /\ ctxDone
  /\ wpc' = "stopped"
  /\ UNCHANGED <<scans, scan_results, nextID, cancels, cancelled, wScans, wi, wResults, wk>>
  /\ UNCHANGED <<clientVars, invoked, submitted, ctxDone, tickErr>>
  /\ UNCHANGED historyVars

(* ----------------------------- the facade ----------------------------- *)

\* handleStartScan / scanService.StartScan: the body is decoded, a fresh id
\* is drawn, Status is pending, Create
Submit(in) ==
  /\ nextID <= MaxScans
  /\ scans' = Create(scans, [id |-> nextID, target |-> in.target,
                             template_ids |-> in.template_ids,
                             status |-> ScanStatusPending])
  /\ nextID' = nextID + 1
  /\ submitted' = [submitted EXCEPT ![nextID] = in]
  /\ UNCHANGED <<scan_results, cancels, cancelled, invoked, ctxDone>>
  /\ UNCHANGED workerVars
  /\ UNCHANGED clientVars
  /\ UNCHANGED historyVars

\* ScanRepository.Get: the error it returns
GetErr(tbl, id) == IF id \in DOMAIN tbl THEN Nil ELSE ErrNotFound

\* handleGetScanResults: GetScan, then the Results field of the scan it
\* returned is encoded (Get reads the scans row only and fills no Results);
\* ErrNotFound is answered with 404
handleGetScanResults(tbl, id) ==
  IF GetErr(tbl, id) = Nil THEN Get(tbl, id).results ELSE ErrNotFound

\* scanService.GetScanResults: the rows GetResults returns, with its error
GetScanResults(res, id) == [results : GetResults(res, id), err : {Nil}]

\* handleGetScan / scanService.GetScan: Get; the handler answers with the
\* scan, or with 404 for ErrNotFound
GetScan(c, id) ==
  /\ cpc[c] = "idle"
  /\ IF GetErr(scans, id) = Nil
       THEN cpc' = [cpc EXCEPT ![c] = "got"]
       ELSE cpc' = [cpc EXCEPT ![c] = "notfound"]
  /\ cid' = [cid EXCEPT ![c] = id]
  /\ UNCHANGED cseen
  /\ UNCHANGED <<scans, scan_results, nextID, cancels, cancelled, invoked, cerr>>
  /\ UNCHANGED workerVars
  /\ UNCHANGED <<submitted, ctxDone>>
  /\ UNCHANGED historyVars

\* DeleteScan going on to Delete when Get returned an error
DeleteGet_IgnoreErr(c, id) ==
  /\ cpc[c] = "idle"
  /\ cid' = [cid EXCEPT ![c] = id]
  /\ IF GetErr(scans, id) = Nil
       THEN /\ cseen' = [cseen EXCEPT ![c] = Get(scans, id).status]
            /\ cpc' = [cpc EXCEPT ![c] =
                 IF Get(scans, id).status = ScanStatusRunning THEN "cancel" ELSE "delete"]
       ELSE /\ cpc' = [cpc EXCEPT ![c] = "delete"]
            /\ UNCHANGED cseen
  /\ UNCHANGED <<scans, scan_results, nextID, cancels, cancelled, invoked, cerr>>
  /\ UNCHANGED workerVars
  /\ UNCHANGED <<submitted, ctxDone>>
  /\ UNCHANGED historyVars

\* scanService.DeleteScan, first step: Get; NotFound returns (false, err)
DeleteGet(c, id) ==
  /\ cpc[c] = "idle"
  /\ cid' = [cid EXCEPT ![c] = id]
  /\ IF GetErr(scans, id) = Nil
       THEN /\ cseen' = [cseen EXCEPT ![c] = Get(scans, id).status]
            /\ cpc' = [cpc EXCEPT ![c] =
                 IF Get(scans, id).status = ScanStatusRunning THEN "cancel" ELSE "delete"]
       ELSE /\ cpc' = [cpc EXCEPT ![c] = "notfound"]
            /\ UNCHANGED cseen
  /\ UNCHANGED <<scans, scan_results, nextID, cancels, cancelled, invoked, cerr>>
  /\ UNCHANGED workerVars
  /\ UNCHANGED <<submitted, ctxDone>>
  /\ UNCHANGED historyVars

\* DeleteScan returning the error of CancelScan instead of logging it
DeleteCancel_Strict(c) ==
  /\ cpc[c] = "cancel"
  /\ CancelScan(FacadeSvc, cid[c])
  /\ cerr' = [cerr EXCEPT ![c] = CancelScanErr(FacadeSvc, cid[c])]
  /\ cpc' = [cpc EXCEPT ![c] =
       IF CancelScanErr(FacadeSvc, cid[c]) = Nil THEN "delete" ELSE "idle"]
  /\ UNCHANGED <<scans, scan_results, nextID, cid, cseen>>
  /\ UNCHANGED workerVars
  /\ UNCHANGED <<submitted, ctxDone>>
  /\ UNCHANGED historyVars

\* scanService.DeleteScan, the scan was read as running: CancelScan on the
\* facade's nuclei service (an error is only logged)
DeleteCancel(c) ==
  /\ cpc[c] = "cancel"
  /\ CancelScan(FacadeSvc, cid[c])
  /\ cerr' = [cerr EXCEPT ![c] = CancelScanErr(FacadeSvc, cid[c])]
  /\ cpc' = [cpc EXCEPT ![c] = "delete"]
  /\ UNCHANGED <<scans, scan_results, nextID, cid, cseen>>
  /\ UNCHANGED workerVars
  /\ UNCHANGED <<submitted, ctxDone>>
  /\ UNCHANGED historyVars

\* scanService.DeleteScan, last step: Delete (scan_results rows cascade),
\* then return (true, nil)
DeleteRemove(c) ==
  /\ cpc[c] = "delete"
  /\ scans' = Delete(scans, cid[c])
  /\ scan_results' = Cascade(scan_results, cid[c])
  /\ cpc' = [cpc EXCEPT ![c] = "deleted"]
  /\ cid' = [cid EXCEPT ![c] = 0]
  /\ UNCHANGED <<nextID, cancels, cancelled, invoked, cseen, cerr>>
  /\ UNCHANGED workerVars
  /\ UNCHANGED <<submitted, ctxDone>>
  /\ UNCHANGED historyVars

\* the handler has written its response: the request is over
Return(c) ==
  /\ cpc[c] \in {"got", "notfound", "deleted", "cancelret"}
  /\ cpc' = [cpc EXCEPT ![c] = "idle"]
  /\ cid' = [cid EXCEPT ![c] = 0]
  /\ cseen' = [cseen EXCEPT ![c] = NULL]
  /\ cerr' = [cerr EXCEPT ![c] = NULL]
  /\ UNCHANGED <<scans, scan_results, nextID, cancels, cancelled, invoked>>
  /\ UNCHANGED workerVars
  /\ UNCHANGED <<submitted, ctxDone>>
  /\ UNCHANGED historyVars

\* a caller of NucleiServiceInterface.CancelScan on the nuclei service that
\* runs the scans (no route of the server makes this call)
CancelCall(c, id) ==
  /\ cpc[c] = "idle"
  /\ CancelScan(WorkerSvc, id)
  /\ cerr' = [cerr EXCEPT ![c] = CancelScanErr(WorkerSvc, id)]
  /\ cid' = [cid EXCEPT ![c] = id]
  /\ cpc' = [cpc EXCEPT ![c] = "cancelret"]
  /\ UNCHANGED <<scans, scan_results, nextID, cseen>>
  /\ UNCHANGED workerVars
  /\ UNCHANGED <<submitted, ctxDone>>
  /\ UNCHANGED historyVars

(* --------------------------- specification ---------------------------- *)

Next ==
  \/ Tick
  \/ ClaimScan
  \/ EngineStart
  \/ EngineEmit
  \/ EngineReturn
  \/ FailScan
  \/ StoreResult
  \/ CompleteScan
  \/ \E in \in Inputs : Submit(in)
  \/ \E c \in Clients, id \in IDs : DeleteGet(c, id)
  \/ \E c \in Clients : DeleteCancel(c)
  \/ \E c \in Clients : DeleteRemove(c)
  \/ \E c \in Clients, id \in IDs : GetScan(c, id)
  \/ \E c \in Clients : Return(c)

\* the program as main and server.New wire it
Spec == Init /\ [][Next]_vars

\* the nuclei service that runs the scans, driven by the worker and by
\* callers of its CancelScan
NextNuclei ==
  \/ Tick
  \/ ClaimScan
  \/ EngineStart
  \/ EngineEmit
  \/ EngineReturn
  \/ FailScan
  \/ StoreResult
  \/ CompleteScan
  \/ \E in \in Inputs : Submit(in)
  \/ \E c \in Clients, id \in IDs : CancelCall(c, id)
  \/ \E c \in Clients : Return(c)

SpecNuclei == Init /\ [][NextNuclei]_vars

\* the ScanWorker with its context: submissions, ticks and the shutdown
NextWorker ==
  \/ Tick
  \/ ClaimScan
  \/ EngineStart
  \/ EngineEmit
  \/ EngineReturn
  \/ FailScan
  \/ StoreResult
  \/ CompleteScan
  \/ \E in \in Inputs : Submit(in)
  \/ Shutdown
  \/ Stop

\* the ticker keeps firing and the goroutine keeps running; a store call that
\* is tried again and again succeeds at some point
WorkerFairness ==
  /\ SF_vars(Tick /\ wpc' = "claim")
  /\ SF_vars(ClaimScan /\ wpc' = "start")
  /\ WF_vars(ClaimScan)
  /\ WF_vars(EngineStart)
  /\ WF_vars(FailScan)
  /\ WF_vars(StoreResult)
  /\ WF_vars(CompleteScan)
  /\ WF_vars(Stop)

\* every engine run returns
SpecLive == Init /\ [][NextWorker]_vars /\ WorkerFairness /\ WF_vars(EngineReturn)

\* an engine run may take for ever
SpecSlow == Init /\ [][NextWorker]_vars /\ WorkerFairness

\* strings the status column (TEXT NOT NULL) may hold: the five statuses and
\* some others
StatusStrings == Statuses \cup {"", "PENDING", "done"}

\* a store whose rows carry any of these strings as their status
InitParse ==
  /\ scans \in [IDs -> [target : {"http://x"}, status : StatusStrings,
                        template_ids : {<<>>}, started_at : {NULL},
                        completed_at : {NULL}, error : {NULL}, options : {NULL}]]
  /\ scan_results = <<>>
  /\ nextID = MaxScans + 1
  /\ cancels = [s \in Services |-> {}]
  /\ cancelled = {}
  /\ wpc = "idle"
  /\ wScans = <<>>
  /\ wi = 0
  /\ wResults = <<>>
  /\ wk = 0
  /\ tickErr = FALSE
  /\ cpc = [c \in Clients |-> "idle"]
  /\ cid = [c \in Clients |-> 0]
  /\ cseen = [c \in Clients |-> NULL]
  /\ cerr = [c \in Clients |-> NULL]
  /\ ctxDone = FALSE
  /\ invoked = [j \in IDs |-> 0]
  /\ submitted = [j \in IDs |-> NULL]
  /\ emitted = [j \in IDs |-> <<>>]
  /\ engineRuns = [j \in IDs |-> 0]

\* the handlers that read a scan through Get, and so through ParseScanStatus
NextParse ==
  \/ \E c \in Clients, id \in IDs : DeleteGet(c, id)
  \/ \E c \in Clients : DeleteCancel(c)
  \/ \E c \in Clients : DeleteRemove(c)
  \/ \E c \in Clients, id \in IDs : GetScan(c, id)
  \/ \E c \in Clients : Return(c)

\* ParseScanStatus applied to whatever the status column holds
SpecParse == InitParse /\ [][NextParse]_vars

TypeOK ==
  /\ DOMAIN scans \subseteq IDs
  /\ \A j \in DOMAIN scans : scans[j].status \in Statuses /\ scans[j].target \in Targets
  /\ nextID \in 1..(MaxScans + 1)
  /\ wpc \in {"idle", "claim", "start", "exec", "fail", "store", "complete", "stopped"}
  /\ ctxDone \in BOOLEAN
  /\ tickErr \in BOOLEAN
  /\ wi \in 0..MaxScans
  /\ \A c \in Clients :
       cpc[c] \in {"idle", "cancel", "delete", "deleted", "notfound", "got", "cancelret"}
  /\ \A j \in IDs : invoked[j] \in 0..2

(* ----------------------------- properties ------------------------------ *)

\* an edge of the lifecycle: Pending -> Running -> Completed | Failed | Cancelled
LegalMove(a, b) ==
  \/ a = b
  \/ a = ScanStatusPending /\ b = ScanStatusRunning
  \/ a = ScanStatusRunning /\ b \in TerminalStatuses

\* C1: in every step, the stored status of every scan that stays in the store
\* is unchanged or moves along Pending -> Running or Running -> terminal (no
\* reverse edge, no Pending -> terminal, nothing out of a terminal status), and
\* a row that appears is a new scan in status pending with a fresh id.
C1_StatusTransitions ==
  [][\A j \in IDs :
       /\ (j \in DOMAIN scans /\ j \in DOMAIN scans')
            => LegalMove(scans[j].status, scans'[j].status)
       /\ (j \notin DOMAIN scans /\ j \in DOMAIN scans')
            => (j = nextID /\ scans'[j].status = ScanStatusPending)]_vars

\* C1 witness: one scan went all the way to completed and another one to
\* failed, each through one engine run
C1_Witness ==
  \E j, k \in DOMAIN scans :
    /\ scans[j].status = ScanStatusCompleted /\ engineRuns[j] = 1
    /\ scans[k].status = ScanStatusFailed /\ engineRuns[k] = 1

\* C2: the engine is invoked at most once for every scan, a tick's list holds
\* no scan twice, and the scan a tick is about to claim is still pending in
\* the store (never running or terminal) when it is still there.
C2_SingleFlight ==
  /\ \A j \in IDs : engineRuns[j] <= 1
  /\ \A a, b \in DOMAIN wScans : a # b => wScans[a].id # wScans[b].id
  /\ (wpc = "claim" /\ cur.id \in DOMAIN scans)
       => scans[cur.id].status = ScanStatusPending

\* C2 witness: a later tick is claiming a scan while another scan, run once,
\* sits in the store in a terminal status
C2_Witness ==
  /\ wpc = "claim"
  /\ \E j \in DOMAIN scans :
       /\ j # cur.id
       /\ engineRuns[j] = 1
       /\ scans[j].status \in TerminalStatuses
       /\ \A a \in DOMAIN wScans : wScans[a].id # j

\* a DELETE handler that read its scan as running has requested cancellation
\* once it has passed its CancelScan call
CancelRequested(c) == cpc[c] = "delete" /\ cseen[c] = ScanStatusRunning

\* C3: once cancellation has been requested for a scan read as running, the
\* scan's stored status changes to nothing but cancelled, and the row that a
\* delete removes holds the status cancelled at the moment it is removed.
C3_CancelEndsCancelled ==
  [][\A c \in Clients :
       (CancelRequested(c) /\ cid[c] \in DOMAIN scans) =>
         /\ (cid[c] \in DOMAIN scans' /\ scans'[cid[c]].status # scans[cid[c]].status)
              => scans'[cid[c]].status = ScanStatusCancelled
         /\ cid[c] \notin DOMAIN scans'
              => scans[cid[c]].status = ScanStatusCancelled]_vars

\* C4: when the facade's CancelScan call of a delete runs while the worker
\* holds a registered handle for that scan, the call invokes it: the scan's
\* context is cancelled after the step.
C4_CancelReachesWorkerHandle ==
  [][\A c \in Clients :
       (cpc[c] = "cancel" /\ cpc'[c] = "delete" /\ cid[c] \in cancels[WorkerSvc])
         => cid[c] \in cancelled']_vars

\* C5: while the engine run of a scan is in progress, every result emitted
\* so far is already in the store: the stored results of the scan are the
\* emitted ones.
C5_PersistAsYouGo ==
  (wpc = "exec" /\ cur.id \in DOMAIN scans)
    => ResultRows(scan_results, cur.id) = emitted[cur.id]

\* C6: a scan stored as failed still has every result its run emitted before
\* the failure.
C6_ResultsKeptOnFailure ==
  \A j \in DOMAIN scans :
    scans[j].status = ScanStatusFailed
      => ResultRows(scan_results, j) = emitted[j]

\* C7: the worker goes from its claim step on to the engine only when that
\* step has left the scan stored as running.
C7_RunningPersistedBeforeEngine ==
  [][(wpc = "claim" /\ wpc' = "start")
       => (cur.id \in DOMAIN scans' /\ scans'[cur.id].status = ScanStatusRunning)]_vars

\* C8: a tick ends only after the last scan of its list; until then the loop
\* moves on by exactly one scan, to that scan's claim step, with the list
\* unchanged, whatever happened to the scan before; and a step changes the
\* stored row or appends a stored result of no scan but the one the worker
\* is working on.
C8_FailureIsolation ==
  [][/\ (wpc # "idle" /\ wpc' = "idle") => wi = Len(wScans)
     /\ (wpc # "idle" /\ wpc' # "idle")
          => /\ wScans' = wScans
             /\ \/ wi' = wi
                \/ wi' = wi + 1 /\ wpc' = "claim"
     /\ \A j \in DOMAIN scans \cap DOMAIN scans' :
          scans'[j] # scans[j] => (wpc # "idle" /\ cur.id = j)
     /\ Len(scan_results') > Len(scan_results)
          => /\ wpc # "idle"
             /\ scan_results' = Append(scan_results, scan_results'[Len(scan_results')])
             /\ scan_results'[Len(scan_results')].scan_id = cur.id]_vars

\* C8 witness: in one tick the first scan of the list has failed and the
\* engine is running the second one
C8_Witness ==
  /\ wpc = "exec"
  /\ wi = 2
  /\ wScans[1].id \in DOMAIN scans
  /\ scans[wScans[1].id].status = ScanStatusFailed

\* C9: for every stored scan, the error column is set exactly when the status
\* is failed, and the scan get returns has a non-empty Error exactly when its
\* status is failed.
C9_ErrorIffFailed ==
  \A j \in DOMAIN scans :
    /\ scans[j].error # NULL <=> scans[j].status = ScanStatusFailed
    /\ Get(scans, j).error # "" <=> Get(scans, j).status = ScanStatusFailed

\* C10: for every stored scan, started_at is null exactly when the status is
\* pending, and completed_at is set exactly when the status is terminal.
C10_Timestamps ==
  \A j \in DOMAIN scans :
    /\ scans[j].started_at = NULL <=> scans[j].status = ScanStatusPending
    /\ scans[j].completed_at # NULL <=> scans[j].status \in TerminalStatuses

\* C11: a registry holds a handle only for a job that is Running: a job
\* stored with any other status has no handle left in any registry
\* (completion, failure -- engine initialisation failure included -- and
\* cancellation all remove it).
C11_HandleOnlyWhileRunning ==
  \A s \in Services : \A j \in DOMAIN scans :
    scans[j].status # ScanStatusRunning => j \notin cancels[s]

\* C12: of two cancel calls in flight on the same Running job exactly one
\* finds the handle: a call made while the engine runs and the handle is
\* registered reports success, a call made after another one succeeded reports 'no running
\* scan found', and a job whose cancel succeeded ends Cancelled, never Failed.
C12_OneCancelWins ==
  [][\A c \in Clients :
       (/\ cpc[c] = "cancel"
        /\ cpc'[c] = "delete"
        /\ \E d \in Clients \ {c} : cid[d] = cid[c] /\ cpc[d] \in {"cancel", "delete"})
       => /\ (wpc = "exec" /\ cur.id = cid[c] /\ cid[c] \in cancels[WorkerSvc])
               => cerr'[c] = Nil
          /\ (\E d \in Clients \ {c} : cid[d] = cid[c] /\ cerr[d] = Nil)
               => cerr'[c] = ErrNoRunningScan
          /\ \A j \in DOMAIN scans \cap DOMAIN scans' :
               (/\ \E d \in Clients : cid[d] = j /\ cerr[d] = Nil
                /\ scans'[j].status # scans[j].status
                /\ scans'[j].status \in TerminalStatuses)
               => scans'[j].status = ScanStatusCancelled]_vars

\* C13: register, cancel and release of one job's handle exclude each other:
\* the handle is invoked at most once and only while it is registered (never
\* after its release), an invocation removes it, the worker's release after
\* the run leaves no entry, and the later of cancel and release changes
\* nothing.
C13_RegistryExclusive ==
  [][\A j \in IDs :
       /\ invoked'[j] <= 1
       /\ invoked'[j] # invoked[j]
            => j \in cancels[WorkerSvc] /\ j \notin cancels'[WorkerSvc]
       /\ (wpc = "exec" /\ cur.id = j /\ wpc' # "exec")
            => /\ j \notin cancels'[WorkerSvc]
               /\ j \notin cancels[WorkerSvc] => UNCHANGED <<cancels, cancelled, invoked>>
       /\ (\E c \in Clients :
             /\ cpc[c] = "idle" /\ cpc'[c] = "cancelret" /\ cid'[c] = j
             /\ j \notin cancels[WorkerSvc])
            => UNCHANGED <<cancels, cancelled, invoked>>]_vars

\* a cancel found the handle during the run, the worker released afterwards,
\* and a second cancel after that found nothing
C13_Witness ==
  \E j \in IDs, c \in Clients :
    /\ invoked[j] = 1
    /\ wpc \in {"fail", "store", "complete"} /\ cur.id = j
    /\ j \notin cancels[WorkerSvc]
    /\ cpc[c] = "cancelret" /\ cid[c] = j /\ cerr[c] = ErrNoRunningScan

\* C14: a cancel call for an id with no registered handle (a Pending job, a
\* terminal job, an id that is not in the store) reports 'no running scan
\* found' and changes no scan, no result and no registry; a Pending job
\* leaves Pending only when the worker claims it.
C14_CancelWithoutHandle ==
  [][/\ \A c \in Clients :
          (/\ cpc[c] = "idle" /\ cpc'[c] = "cancelret"
           /\ cid'[c] \notin cancels[WorkerSvc])
          => /\ cerr'[c] = ErrNoRunningScan
             /\ UNCHANGED <<scans, scan_results, cancels, cancelled, invoked>>
             /\ UNCHANGED workerVars
     /\ \A j \in DOMAIN scans :
          (scans[j].status = ScanStatusPending /\ scans'[j].status # ScanStatusPending)
          => wpc = "claim" /\ cur.id = j]_vars

\* one caller has cancelled a Pending job, another an id that is not in the
\* store, and both were told that no scan is running
C14_Witness ==
  \E c, d \in Clients :
    /\ cpc[c] = "cancelret" /\ cerr[c] = ErrNoRunningScan
    /\ cid[c] \in DOMAIN scans /\ scans[cid[c]].status = ScanStatusPending
    /\ cpc[d] = "cancelret" /\ cerr[d] = ErrNoRunningScan
    /\ cid[d] \notin DOMAIN scans

\* a is an initial segment of b
IsPrefix(a, b) == Len(a) <= Len(b) /\ SubSeq(b, 1, Len(a)) = a

\* C15: the Results of a job are append-only and grow only while its stored
\* status is Running: no step changes or removes a stored Result of a job
\* that stays in the store, and a step that appends one finds the job
\* Running before and after.
C15_ResultsAppendOnlyWhileRunning ==
  [][/\ \A j \in DOMAIN scans \cap DOMAIN scans' :
          IsPrefix(ResultRows(scan_results, j), ResultRows(scan_results', j))
     /\ \A j \in IDs :
          Len(ResultRows(scan_results', j)) > Len(ResultRows(scan_results, j))
          => /\ j \in DOMAIN scans /\ scans[j].status = ScanStatusRunning
             /\ j \in DOMAIN scans' /\ scans'[j].status = ScanStatusRunning
             /\ Len(ResultRows(scan_results', j)) = Len(ResultRows(scan_results, j)) + 1]_vars

\* a Running job has a stored Result and another is about to be appended
C15_Witness ==
  /\ wpc = "store"
  /\ wk > 1
  /\ cur.id \in DOMAIN scans
  /\ scans[cur.id].status = ScanStatusRunning
  /\ ResultRows(scan_results, cur.id) # <<>>

\* C16: the results query returns the stored Results of a job in the order
\* they were appended, at every moment: whatever the query may return is the
\* sequence of the job's rows in insertion order.
C16_ResultsInAppendOrder ==
  \A j \in DOMAIN scans :
    \A q \in GetResults(scan_results, j) : q = ResultRows(scan_results, j)

\* C17: the results operation offered to callers returns all and only the
\* stored Results of the job: for every stored job the results it answers
\* with are the job's rows, so it is not empty when rows are stored.
C17_ResultsEndpointReturnsStored ==
  \A j \in DOMAIN scans :
    LET body == handleGetScanResults(scans, j)
    IN  {body[k] : k \in 1..Len(body)}
          = {ResultRows(scan_results, j)[k] : k \in 1..Len(ResultRows(scan_results, j))}

\* C18: after a successful delete the job and its Results are gone, and every
\* later get and results call for the id fails with NotFound. (Ids are
\* handed out in sequence and a row leaves the store only by Delete, so an id
\* below nextID that is not stored is a deleted one.)
C18_DeletedMeansNotFound ==
  \A j \in 1..(nextID - 1) :
    j \notin DOMAIN scans
      => /\ ResultRows(scan_results, j) = <<>>
         /\ GetErr(scans, j) = ErrNotFound
         /\ \A r \in GetScanResults(scan_results, j) : r.err = ErrNotFound

C20_DeleteBestEffortCancel ==
  [][\A c \in Clients :
       /\ (cpc[c] = "cancel" /\ cpc'[c] # "cancel")
            => cpc'[c] = "delete" /\ cid'[c] = cid[c]
       /\ (cpc[c] = "delete" /\ cpc'[c] # "delete")
            => /\ cpc'[c] = "deleted"
               /\ cid[c] \notin DOMAIN scans'
               /\ ResultRows(scan_results', cid[c]) = <<>>]_vars

\* a handler that read the scan as running and whose CancelScan found no
\* handle has deleted the scan
C20_Witness ==
  \E c \in Clients :
    /\ cpc[c] = "deleted"
    /\ cseen[c] = ScanStatusRunning
    /\ cerr[c] = ErrNoRunningScan

\* C21: a submit with an empty target creates no job, so no stored job has
\* an empty target and the worker never starts the engine for one.
C21_EmptyTargetRejected ==
  /\ \A j \in DOMAIN scans : scans[j].target # ""
  /\ wpc \in {"start", "exec"} => cur.target # ""

\* C22: a submit gives the job an id no stored job has, stores it as Pending
\* with no Results, touches neither the worker nor the engine nor any other
\* job, and the job is there for get and list at once.
C22_SubmitCreatesPending ==
  [][nextID' # nextID
       => /\ nextID \notin DOMAIN scans
          /\ DOMAIN scans' = DOMAIN scans \cup {nextID}
          /\ scans'[nextID].status = ScanStatusPending
          /\ ResultRows(scan_results', nextID) = <<>>
          /\ \A j \in DOMAIN scans : scans'[j] = scans[j]
          /\ UNCHANGED <<workerVars, cancels, cancelled, engineRuns, emitted>>
          /\ GetErr(scans', nextID) = Nil
          /\ Get(scans', nextID).status = ScanStatusPending
          /\ nextID \in ListIDs(scans', ScanStatusPending)]_vars

\* a second job was submitted and is Pending while the engine runs the first
C22_Witness ==
  /\ nextID = 3
  /\ 2 \in DOMAIN scans
  /\ scans[2].status = ScanStatusPending
  /\ wpc = "exec"
  /\ cur.id = 1

C24_SlowRunBlocksNobody ==
  \A j \in IDs :
    (/\ j \in DOMAIN scans /\ scans[j].status = ScanStatusPending
     /\ wpc = "exec" /\ cur.id # j)
    ~> (\/ j \notin DOMAIN scans
        \/ scans[j].status # ScanStatusPending
        \/ ctxDone)

\* C25: while the worker runs, a job that is stored as Pending is claimed at
\* some point (unless it leaves the store or the worker is shut down), given
\* that the ticker fires, store calls succeed and every engine run returns.
C25_PendingIsClaimed ==
  \A j \in IDs :
    (j \in DOMAIN scans /\ scans[j].status = ScanStatusPending)
    ~> (\/ j \in DOMAIN scans /\ scans[j].status = ScanStatusRunning
        \/ ctxDone)

\* the worker has claimed the second job after it was done with the first
C25_Witness ==
  /\ ~ctxDone
  /\ wpc = "start"
  /\ cur.id = 2
  /\ scans[2].status = ScanStatusRunning
  /\ engineRuns[1] = 1

\* C26: when the worker is done with a job whose engine run has returned, the
\* job, if it is still stored, has a terminal status: it does not stay
\* Running.
C26_RunEndsTerminal ==
  [][(/\ wpc \in {"fail", "complete"}
      /\ wpc' \in {"claim", "idle"}
      /\ cur.id \in DOMAIN scans')
       => scans'[cur.id].status \in TerminalStatuses]_vars

\* C27: what get returns as Target, template selectors and Options of a job
\* is what the job was submitted with, at every point of its life.
C27_SubmittedFieldsReturned ==
  \A j \in DOMAIN scans :
    /\ Get(scans, j).target = submitted[j].target
    /\ Get(scans, j).template_ids = submitted[j].template_ids
    /\ submitted[j].options # <<>> => Get(scans, j).options = submitted[j].options

\* the value the engine is to get for option f of an input: the submitted
\* one, or the default when the option is missing or zero
OptionOr(in, f) ==
  IF in.options = <<>> \/ in.options[1][f] = 0
    THEN DefaultOptions[f]
    ELSE in.options[1][f]

\* C28: the engine run of a job is configured from what the job was
\* submitted with: its template selectors, and each of concurrency,
\* rate_limit, timeout, retries and headless, the default standing in for a
\* missing or zero option.
C28_EngineGetsSubmittedConfig ==
  wpc = "exec"
    => EngineConfig(cur) =
         [template_ids |-> submitted[cur.id].template_ids,
          concurrency |-> <<OptionOr(submitted[cur.id], "concurrency")>>,
          rate_limit |-> <<OptionOr(submitted[cur.id], "rate_limit")>>,
          timeout |-> <<OptionOr(submitted[cur.id], "timeout")>>,
          retries |-> <<OptionOr(submitted[cur.id], "retries")>>,
          headless |-> IF submitted[cur.id].options = <<>>
                         THEN DefaultOptions.headless
                         ELSE submitted[cur.id].options[1].headless]

\* C29: list succeeds for every combination of present and absent status,
\* target and template filters and returns exactly the jobs that satisfy all
\* the filters that are present.
C29_ListFiltersConjunctive ==
  DOMAIN scans # {}
    => \A st \in Statuses \cup {NULL}, tg \in (Targets \ {""}) \cup {NULL},
          tp \in {"t1", NULL} :
         /\ ListScans(scans, st, tg, tp).err = Nil
         /\ ListScans(scans, st, tg, tp).ids =
              {j \in DOMAIN scans :
                 /\ st = NULL \/ scans[j].status = st
                 /\ tg = NULL \/ scans[j].target = tg
                 /\ tp = NULL
                      \/ \E k \in 1..Len(scans[j].template_ids) :
                           scans[j].template_ids[k] = tp}

\* C30: only the worker writes Status and Result rows: a step of submit, get
\* or delete leaves the Status and the Results of every job that stays in
\* the store as they are, adds a job only by submit and removes only the job
\* the delete was called for.
C30_OnlyWorkerWrites ==
  [][(cpc' # cpc \/ nextID' # nextID)
       => /\ \A j \in DOMAIN scans \cap DOMAIN scans' :
               /\ scans'[j].status = scans[j].status
               /\ ResultRows(scan_results', j) = ResultRows(scan_results, j)
          /\ \A j \in DOMAIN scans \ DOMAIN scans' :
               \E c \in Clients : cpc[c] = "delete" /\ cid[c] = j /\ cpc'[c] = "deleted"
          /\ \A j \in DOMAIN scans' \ DOMAIN scans : j = nextID /\ nextID' # nextID]_vars

\* a delete has gone through while the other job has stored Results
C30_Witness ==
  \E c \in Clients, j \in DOMAIN scans :
    /\ cpc[c] = "deleted"
    /\ nextID = 3
    /\ ResultRows(scan_results, j) # <<>>

\* C31: when the worker's context is cancelled while the engine runs a job,
\* the run ends and its outcome is stored: once the worker has stopped, that
\* job has a terminal status; it is not left Running.
C31_ShutdownPersistsOutcome ==
  \A j \in DOMAIN scans :
    (wpc = "stopped" /\ j \in cancelled) => scans[j].status \in TerminalStatuses

\* C32: from the moment a job is stored as Running until its engine run has
\* returned or a cancel has been delivered, some registry holds a handle for
\* the job, so whoever reads the job as Running finds a handle.
C32_HandleWhileRunning ==
  (/\ wpc \in {"start", "exec"}
   /\ cur.id \in DOMAIN scans
   /\ scans[cur.id].status = ScanStatusRunning
   /\ invoked[cur.id] = 0)
    => \E s \in Services : cur.id \in cancels[s]

\* C33: the worker does not go on to the engine with a job that was deleted
\* after the tick fetched it: when the job is gone from the store at the
\* claim step, the tick leaves it out and invokes no engine run for it.
C33_NoEngineForDeletedJob ==
  [][(wpc = "claim" /\ cur.id \notin DOMAIN scans)
       => (wpc' # "start" /\ engineRuns' = engineRuns)]_vars

\* C34: a deleted job stays deleted whatever the worker still does with it:
\* in every step, a job that has been deleted is not in the store afterwards,
\* get answers NotFound for it, list does not show it, and no stored Result
\* carries its id.
C34_DeletionIsFinal ==
  [][\A j \in 1..(nextID - 1) :
       j \notin DOMAIN scans
         => /\ j \notin DOMAIN scans'
            /\ GetErr(scans', j) = ErrNotFound
            /\ j \notin ListScans(scans', NULL, NULL, NULL).ids
            /\ ResultRows(scan_results', j) = <<>>]_vars

\* the worker has been through the status updates and the result loop of a
\* job whose delete read it before the claim, and the job is gone
C34_Witness ==
  /\ wpc = "complete"
  /\ Len(wResults) = MaxEvents
  /\ cur.id \notin DOMAIN scans
  /\ ResultRows(scan_results, cur.id) = <<>>
  /\ \E c \in Clients : cpc[c] = "deleted" /\ cseen[c] = ScanStatusPending

\* a is b with some of its elements left out, the order kept
IsSubseq(a, b) ==
  \E f \in [1..Len(a) -> 1..Len(b)] :
    /\ \A x, y \in 1..Len(a) : x < y => f[x] < f[y]
    /\ \A x \in 1..Len(a) : a[x] = b[f[x]]

\* C35: a Result that could not be stored does not stop its job: the result
\* loop goes on to the next Result or to the completion step, and when the
\* worker is done with a job of which a Result was not stored, the job is
\* Completed and its stored Results are the emitted ones with some left out,
\* in the order of emission.
C35_ResultFailureDoesNotStopJob ==
  [][/\ wpc = "store" => wpc' \in {"store", "complete"}
     /\ (/\ wpc = "complete"
         /\ wpc' # "complete"
         /\ cur.id \in DOMAIN scans'
         /\ Len(ResultRows(scan_results, cur.id)) < Len(emitted[cur.id]))
        => /\ scans'[cur.id].status = ScanStatusCompleted
           /\ IsSubseq(ResultRows(scan_results', cur.id), emitted[cur.id])]_vars

\* C36: a tick whose Pending-list query fails claims no job, starts no engine
\* run and changes nothing in the store, and the worker's loop goes on
\* (the worker is idle afterwards, not stopped); a job that is Pending after
\* a failed tick is claimed by a later tick, unless the worker is shut down.
C36_FailedListSkipsTick ==
  /\ [][(~tickErr /\ tickErr')
          => /\ wpc' = "idle"
             /\ UNCHANGED <<scans, scan_results, nextID, cancels, cancelled>>
             /\ UNCHANGED <<wScans, wi, engineRuns, emitted>>]_vars
  /\ \A j \in IDs :
       (tickErr /\ j \in DOMAIN scans /\ scans[j].status = ScanStatusPending)
       ~> (\/ j \in DOMAIN scans /\ scans[j].status = ScanStatusRunning
           \/ ctxDone)

\* a tick has failed on its query while a job is Pending and another one has
\* been run, and the worker is idle with its context alive
C36_Witness ==
  /\ tickErr
  /\ ~ctxDone
  /\ wpc = "idle"
  /\ \E j, k \in DOMAIN scans :
       /\ scans[j].status = ScanStatusPending
       /\ engineRuns[k] = 1

\* C37: ParseScanStatus hands back each of the five status strings as it is
\* and pending for every other string, and parsing its result again changes
\* nothing; so the scan Get builds from a row, and the status a handler has
\* read through it, carries one of the five statuses whatever the row holds.
C37_ParseScanStatus ==
  /\ \A s \in StatusStrings :
       /\ s \in Statuses => ParseScanStatus(s) = s
       /\ s \notin Statuses => ParseScanStatus(s) = ScanStatusPending
       /\ ParseScanStatus(ParseScanStatus(s)) = ParseScanStatus(s)
  /\ \A j \in DOMAIN scans :
       /\ Get(scans, j).status \in Statuses
       /\ Get(scans, j).status =
            IF scans[j].status \in Statuses THEN scans[j].status ELSE ScanStatusPending
  /\ \A c \in Clients :
       (cpc[c] \in {"cancel", "delete"} /\ cid[c] \in DOMAIN scans)
         => /\ cseen[c] \in Statuses
            /\ cseen[c] =
                 IF scans[cid[c]].status \in Statuses
                   THEN scans[cid[c]].status
                   ELSE ScanStatusPending

\* one handler has read a row whose status is none of the five as pending,
\* another one has read a running row as running
C37_Witness ==
  \E c, d \in Clients :
    /\ cpc[c] = "delete"
    /\ cid[c] \in DOMAIN scans
    /\ scans[cid[c]].status \notin Statuses
    /\ cseen[c] = ScanStatusPending
    /\ cpc[d] = "cancel"
    /\ cseen[d] = ScanStatusRunning

=============================================================================
